---- MODULE Spec2Model ----
(***************************************************************************)
(* ScanQR: the scan handlers of the QR scanner screens, the timers they    *)
(* arm, and the local scan store they write to.                            *)
(*                                                                         *)
(*   Spec      the ref-based screen   (lastScannedCode / lastScannedTime / *)
(*             isProcessingRef, release timer armed in the finally block)  *)
(*   SpecBool  the boolean-state screen of app/index.tsx (isScanning state,*)
(*             re-enable timer armed at acceptance)                        *)
(*   SpecHistory  the ref-based screen with its delete and clear buttons,  *)
(*             from the completed initial load                             *)
(*   SpecStore the database on its own, under any sequence of calls        *)
(*   SpecSync  the sync button of the three screens, local and remote mode *)
(*   SpecSyncLive  the sync button with fair scheduling of its callbacks   *)
(*   SpecTeardown  either scanner screen, scanning until it is unmounted   *)
(*   SpecFirst the ref-based screen from clock 0, empty payload included   *)
(*                                                                         *)
(* Time is in milliseconds.  Every await of a handler is one step of the   *)
(* model: the awaited call returns (or throws) in that step, and any       *)
(* amount of time may pass, and any other callback may run, before it.     *)
(***************************************************************************)
EXTENDS Integers, Sequences, FiniteSets, TLC

VARIABLES
    now,              \* Date.now(), ms
    db,               \* "connecting" | "ready" | "failed": the db state of the screen
    store,            \* the rows of the local database, in insertion order
    nextId,           \* the identifier the database assigns to the next row
    scannedCodes,     \* the list held by the screen (useState)
    stats,            \* the statistics held by the screen (useState)
    lastScannedCode,  \* useRef<string>("")
    lastScannedTime,  \* useRef<number>(0)
    isProcessingRef,  \* useRef<boolean>(false)
    scanTimeoutRef,   \* useRef<Timeout | null>(null): 0 is null, else a timer id
    isScanning,       \* useState(true) of the boolean-state screen
    handlerIsScanning,\* the isScanning captured by the rendered onBarcodeScanned
    timers,           \* pending setTimeout callbacks: [id, due, kind]
    tasks,            \* the async invocations started so far, in start order
    limits,           \* what the run explores: [scans, userOps, ticks, faults], constant
    ev,               \* the decode event delivered by the last step, if any
    screen,           \* which screen is built: "refs" | "state" | "location", constant
    isLocalMode,      \* const isLocalMode of the build, constant
    mounted,          \* FALSE once the screen has been unmounted
    isSyncing,        \* useState(false)
    requests,         \* the POST requests of the latest syncWithServer loop, in order
    syncResult        \* the last Alert shown by syncWithServer: [task, kind, count]

vars == << now, db, store, nextId, scannedCodes, stats, lastScannedCode, lastScannedTime,
           isProcessingRef, scanTimeoutRef, isScanning, handlerIsScanning,
           timers, tasks, limits, ev, screen, isLocalMode, mounted,
           isSyncing, requests, syncResult >>

build == << screen, isLocalMode >>
syncVars == << isSyncing, requests, syncResult >>

(***************************************************************************)
(* Program constants                                                       *)
(***************************************************************************)
SCAN_COOLDOWN == 3000
PROCESSING_TIMEOUT == 1000
ENABLE_TIMEOUT == 1000
LOCAL_NOTICE_DELAY == 500

(***************************************************************************)
(* Bounds of the model                                                     *)
(***************************************************************************)
MaxTicks == 4       \* Spec: the clock advances at most MaxTicks times
MaxScans == 3       \* Spec: accepted scans
MaxBoolTicks == 2   \* SpecBool
MaxBoolScans == 2
MaxHistTicks == 1   \* SpecHistory
MaxHistScans == 1
MaxUserOps == 1     \* SpecHistory: delete / clear presses
MaxInserts == 3     \* SpecStore: insert calls
MaxStoreTicks == 1  \* SpecStore
MaxSyncRecords == 3 \* SpecSync: rows in the database when the screen is opened
MaxSyncOps == 2     \* SpecSync: sync / clear presses
MaxSyncTicks == 1   \* SpecSync
MaxDownScans == 2   \* SpecTeardown
MaxDownTicks == 1
MaxFirstScans == 1  \* SpecFirst: accepted scans
MaxFirstTicks == 1  \* SpecFirst: clock steps past StartTime

Tick == PROCESSING_TIMEOUT                 \* granularity of the clock
StartTime == 2 * SCAN_COOLDOWN             \* Date.now() at mount (epoch ms, far from 0)

Payloads == {"A", "B"}
Types == {"qr", "code128"}
\* the decode events the camera delivers: (data, type) of the codes in front of it
Codes == {<<"A", "qr">>, <<"B", "code128">>}

NoEv == [data |-> "", time |-> 0, result |-> "none",
         busy |-> FALSE, lastCode |-> "", lastTime |-> 0]

\* a report that carries no count, and no report yet
NoCount == 0 - 1
NoResult == [task |-> 0, kind |-> "none", count |-> NoCount]

EmptyStats == [total |-> 0, porTipo |-> [t \in Types |-> 0], ultimoEscaneo |-> 0]

(***************************************************************************)
(* The local database.  src/database is imported by the screens but is not  *)
(* among the sources: it is modelled from the ScanStore section of spec.md *)
(***************************************************************************)
RECURSIVE Reverse(_)
Reverse(s) == IF s = << >> THEN << >> ELSE Append(Reverse(Tail(s)), Head(s))

\* list(): most recent first
consultarCodigos(st) == Reverse(st)

\* an exists that does not see the most recent row
existeCodigoPrevio(st, data) == \E i \in 1..(Len(st) - 1) : st[i].data = data

\* exists(payload)
existeCodigo(st, data) == \E i \in 1..Len(st) : st[i].data = data

\* an insert that keeps one row per payload
insertarCodigoUnico(st, nid, data, type, t) ==
    IF \E i \in 1..Len(st) : st[i].data = data THEN st
    ELSE Append(st, [id |-> nid, data |-> data, type |-> type, timestamp |-> t])

\* insert(payload, typeTag): always a new row
insertarCodigo(st, nid, data, type, t) ==
    Append(st, [id |-> nid, data |-> data, type |-> type, timestamp |-> t])

\* a delete that also removes the rows stored before the one named
eliminarCodigoHasta(st, id) == SelectSeq(st, LAMBDA r : r.id > id)

\* deleteById(id)
eliminarCodigo(st, id) == SelectSeq(st, LAMBDA r : r.id # id)

\* clearAll()
limpiarCodigos(st) == << >>

CountType(st, t) == Cardinality({i \in 1..Len(st) : st[i].type = t})

\* statistics whose total counts the distinct payloads
obtenerEstadisticasDistinct(st) ==
    [total |-> Cardinality({st[i].data : i \in 1..Len(st)}),
     porTipo |-> [t \in Types |-> CountType(st, t)],
     ultimoEscaneo |-> IF st = << >> THEN 0 ELSE st[Len(st)].timestamp]

\* computeStats(): derived from the rows
obtenerEstadisticas(st) ==
    [total |-> Len(st),
     porTipo |-> [t \in Types |-> CountType(st, t)],
     ultimoEscaneo |-> IF st = << >> THEN 0 ELSE st[Len(st)].timestamp]

RECURSIVE SumOver(_, _)
SumOver(f, S) ==
    IF S = {} THEN 0
    ELSE LET x == CHOOSE y \in S : TRUE IN f[x] + SumOver(f, S \ {x})

(***************************************************************************)
(* Async invocations.  pc names the call the invocation is awaiting.       *)
(*   kind "load"     retrieveLocalDbData:  connect, upd_codes, upd_stats   *)
(*   kind "scanRef"  ref-based handler:    exists, notifyKnown, notifyNew, *)
(*                                         insert, upd_codes, upd_stats    *)
(*   kind "scanBool" boolean-state handler: notify, insert, list,          *)
(*                                         upd_codes, upd_stats            *)
(*   kind "delete"   deleteCode:           delete, upd_codes, upd_stats    *)
(*   kind "clear"    clearScannedCodes:    clear, upd_codes, upd_stats     *)
(*   kind "sync"     syncWithServer:       send (target: the row in turn)  *)
(* err is how the invocation ended: "none", "alert" (caught, Alert shown), *)
(* "logged" (caught by updateData, console.error only), "unhandled" (the   *)
(* handler's promise rejected).                                            *)
(***************************************************************************)
Task(kind, data, type, pc, target, hasDb) ==
    [kind |-> kind, data |-> data, type |-> type, at |-> now, pc |-> pc,
     codes |-> << >>, target |-> target, hasDb |-> hasDb, err |-> "none"]

IsScan(tk) == tk.kind \in {"scanRef", "scanBool"}
NumScans == Cardinality({i \in 1..Len(tasks) : IsScan(tasks[i])})
NumUserOps == Cardinality({i \in 1..Len(tasks) : tasks[i].kind \in {"delete", "clear", "sync"}})

\* whether an awaited database call may throw
Outcomes == IF limits.faults THEN BOOLEAN ELSE {TRUE}

Awaiting(pc) == {i \in 1..Len(tasks) : tasks[i].pc = pc}

\* setTimeout(() => { isProcessingRef.current = false }, PROCESSING_TIMEOUT),
\* its id kept in scanTimeoutRef
ArmRelease(i) ==
    /\ timers' = timers \cup {[id |-> i, due |-> now + PROCESSING_TIMEOUT, kind |-> "release"]}
    /\ scanTimeoutRef' = i

\* a Finish whose finally block is skipped when the work has thrown
FinishBusyOnError(i, err) ==
    /\ tasks' = [tasks EXCEPT ![i].pc = "done", ![i].err = err, ![i].codes = << >>]
    /\ IF tasks[i].kind = "scanRef" /\ err = "none"
         THEN ArmRelease(i)
         ELSE UNCHANGED << timers, scanTimeoutRef >>

\* a Goto that arms the release timer at every step of the work
GotoReleasing(i, pc) ==
    /\ tasks' = [tasks EXCEPT ![i].pc = pc]
    /\ ArmRelease(i)

\* The invocation ends with outcome err.  The ref-based handler leaves through
\* its finally block, which arms the release timer.
Finish(i, err) ==
    /\ tasks' = [tasks EXCEPT ![i].pc = "done", ![i].err = err, ![i].codes = << >>]
    /\ IF tasks[i].kind = "scanRef"
         THEN ArmRelease(i)
         ELSE UNCHANGED << timers, scanTimeoutRef >>

Goto(i, pc) ==
    /\ tasks' = [tasks EXCEPT ![i].pc = pc]
    /\ UNCHANGED << timers, scanTimeoutRef >>

(***************************************************************************)
(* Deduplicator of the ref-based screen                                    *)
(***************************************************************************)
\* Decide with the busy check applied to a repeated payload only
DecideBusySamePayload(flag, lastCode, lastTime, data, t) ==
    IF flag /\ lastCode = data THEN "RejectBusy"
    ELSE IF lastCode = data /\ t - lastTime < SCAN_COOLDOWN THEN "RejectDuplicate"
    ELSE "Accept"

\* Decide with the cooldown bound included in the window
DecideInclusive(flag, lastCode, lastTime, data, t) ==
    IF flag THEN "RejectBusy"
    ELSE IF lastCode = data /\ t - lastTime <= SCAN_COOLDOWN THEN "RejectDuplicate"
    ELSE "Accept"

Decide(flag, lastCode, lastTime, data, t) ==
    IF flag THEN "RejectBusy"
    ELSE IF lastCode = data /\ t - lastTime < SCAN_COOLDOWN THEN "RejectDuplicate"
    ELSE "Accept"

\* isProcessingRef.current = true; lastScannedCode.current = scannedData;
\* lastScannedTime.current = currentTime
\* MarkProcessing without the timestamp
MarkProcessingNoTime(data) ==
    /\ isProcessingRef' = TRUE
    /\ lastScannedCode' = data
    /\ UNCHANGED lastScannedTime

MarkProcessing(data) ==
    /\ isProcessingRef' = TRUE
    /\ lastScannedCode' = data
    /\ lastScannedTime' = now

Observed(data, result, busy) ==
    [data |-> data, time |-> now, result |-> result, busy |-> busy,
     lastCode |-> lastScannedCode, lastTime |-> lastScannedTime]

\* onBarcodeScanned of the ref-based screen, up to its first await
OnBarcodeScanned(data, type) ==
    LET r == Decide(isProcessingRef, lastScannedCode, lastScannedTime, data, now)
        n == Len(tasks) + 1
    IN  /\ ev' = Observed(data, r, isProcessingRef)
        /\ IF r = "Accept"
             THEN /\ NumScans < limits.scans
                  /\ MarkProcessing(data)
                  /\ IF db = "ready"
                       THEN /\ tasks' = Append(tasks, Task("scanRef", data, type, "exists", 0, TRUE))
                            /\ UNCHANGED << timers, scanTimeoutRef >>
                       ELSE /\ tasks' = Append(tasks, Task("scanRef", data, type, "done", 0, FALSE))
                            /\ ArmRelease(n)
             ELSE UNCHANGED << isProcessingRef, lastScannedCode, lastScannedTime,
                               tasks, timers, scanTimeoutRef >>
        /\ UNCHANGED << now, db, store, nextId, scannedCodes, stats,
                        isScanning, handlerIsScanning, limits, build, mounted, syncVars >>

\* an existence check whose answer is not looked at
ExistsReturnsAlwaysNew(i, ok) ==
    /\ tasks[i].pc = "exists"
    /\ IF ok THEN Goto(i, "notifyNew") ELSE Finish(i, "alert")
    /\ ev' = NoEv
    /\ UNCHANGED << now, db, store, nextId, scannedCodes, stats, lastScannedCode,
                    lastScannedTime, isProcessingRef, isScanning, handlerIsScanning,
                    limits, build, mounted, syncVars >>

\* await db.existeCodigo(scannedData)
ExistsReturns(i, ok) ==
    /\ tasks[i].pc = "exists"
    /\ IF ok
         THEN Goto(i, IF existeCodigo(store, tasks[i].data) THEN "notifyKnown" ELSE "notifyNew")
         ELSE Finish(i, "alert")
    /\ ev' = NoEv
    /\ UNCHANGED << now, db, store, nextId, scannedCodes, stats, lastScannedCode,
                    lastScannedTime, isProcessingRef, isScanning, handlerIsScanning,
                    limits, build, mounted, syncVars >>

\* await showNotification(...): it catches its own errors and never throws
NotifyReturns(i) ==
    /\ tasks[i].pc \in {"notifyKnown", "notifyNew", "notify"}
    /\ CASE tasks[i].pc = "notifyKnown" -> Finish(i, "none")
         [] tasks[i].pc = "notifyNew" -> Goto(i, "insert")
         [] tasks[i].pc = "notify" ->
              IF tasks[i].hasDb THEN Goto(i, "insert") ELSE Finish(i, "none")
    /\ ev' = NoEv
    /\ UNCHANGED << now, db, store, nextId, scannedCodes, stats, lastScannedCode,
                    lastScannedTime, isProcessingRef, isScanning, handlerIsScanning,
                    limits, build, mounted, syncVars >>

\* await db.insertarCodigo(data, type)
InsertReturns(i, ok) ==
    /\ tasks[i].pc = "insert"
    /\ IF ok
         THEN /\ store' = insertarCodigo(store, nextId, tasks[i].data, tasks[i].type, now)
              /\ nextId' = nextId + 1
              /\ Goto(i, IF tasks[i].kind = "scanRef" THEN "upd_codes" ELSE "list")
         ELSE /\ Finish(i, IF tasks[i].kind = "scanRef" THEN "alert" ELSE "unhandled")
              /\ UNCHANGED << store, nextId >>
    /\ ev' = NoEv
    /\ UNCHANGED << now, db, scannedCodes, stats, lastScannedCode,
                    lastScannedTime, isProcessingRef, isScanning, handlerIsScanning,
                    limits, build, mounted, syncVars >>

\* updateData: const codes = await database.consultarCodigos()
UpdCodesReturns(i, ok) ==
    /\ tasks[i].pc = "upd_codes"
    /\ IF ok
         THEN /\ tasks' = [tasks EXCEPT ![i].pc = "upd_stats",
                                        ![i].codes = consultarCodigos(store)]
              /\ UNCHANGED << timers, scanTimeoutRef >>
         ELSE Finish(i, "logged")
    /\ ev' = NoEv
    /\ UNCHANGED << now, db, store, nextId, scannedCodes, stats, lastScannedCode,
                    lastScannedTime, isProcessingRef, isScanning, handlerIsScanning,
                    limits, build, mounted, syncVars >>

\* updateData: const statistics = await database.obtenerEstadisticas();
\* setScannedCodes(codes); setStats(statistics)
UpdStatsReturns(i, ok) ==
    /\ tasks[i].pc = "upd_stats"
    /\ IF ok
         THEN /\ scannedCodes' = tasks[i].codes
              /\ stats' = obtenerEstadisticas(store)
              /\ Finish(i, "none")
         ELSE /\ Finish(i, "logged")
              /\ UNCHANGED << scannedCodes, stats >>
    /\ ev' = NoEv
    /\ UNCHANGED << now, db, store, nextId, lastScannedCode,
                    lastScannedTime, isProcessingRef, isScanning, handlerIsScanning,
                    limits, build, mounted, syncVars >>

\* retrieveLocalDbData: const database = await connectDb(); setDB(database)
ConnectReturns(i, ok) ==
    /\ tasks[i].pc = "connect"
    /\ IF ok
         THEN /\ db' = "ready"
              /\ Goto(i, "upd_codes")
         ELSE /\ db' = "failed"
              /\ Finish(i, "alert")
    /\ ev' = NoEv
    /\ UNCHANGED << now, store, nextId, scannedCodes, stats, lastScannedCode,
                    lastScannedTime, isProcessingRef, isScanning, handlerIsScanning,
                    limits, build, mounted, syncVars >>

\* a release callback that also forgets when the last scan was accepted
ReleaseFiresForgets(tm) ==
    /\ tm \in timers
    /\ tm.kind = "release"
    /\ tm.due <= now
    /\ isProcessingRef' = FALSE
    /\ lastScannedTime' = 0
    /\ timers' = timers \ {tm}
    /\ ev' = NoEv
    /\ UNCHANGED << now, db, store, nextId, scannedCodes, stats, lastScannedCode,
                    scanTimeoutRef, isScanning, handlerIsScanning, tasks,
                    limits, build, mounted, syncVars >>

\* a release callback that also empties the last accepted payload
ReleaseFiresClearsCode(tm) ==
    /\ tm \in timers
    /\ tm.kind = "release"
    /\ tm.due <= now
    /\ isProcessingRef' = FALSE
    /\ lastScannedCode' = ""
    /\ timers' = timers \ {tm}
    /\ ev' = NoEv
    /\ UNCHANGED << now, db, store, nextId, scannedCodes, stats, lastScannedTime,
                    scanTimeoutRef, isScanning, handlerIsScanning, tasks,
                    limits, build, mounted, syncVars >>

\* the release callback armed by the finally block
ReleaseFires(tm) ==
    /\ tm \in timers
    /\ tm.kind = "release"
    /\ tm.due <= now
    /\ isProcessingRef' = FALSE
    /\ timers' = timers \ {tm}
    /\ ev' = NoEv
    /\ UNCHANGED << now, db, store, nextId, scannedCodes, stats, lastScannedCode,
                    lastScannedTime, scanTimeoutRef, isScanning, handlerIsScanning, tasks,
                    limits, build, mounted, syncVars >>

\* Time passes; a timer that is due runs before the clock moves on.
Advance ==
    /\ now < StartTime + limits.ticks * Tick
    /\ \A tm \in timers : tm.due > now
    /\ now' = now + Tick
    /\ ev' = NoEv
    /\ UNCHANGED << db, store, nextId, scannedCodes, stats, lastScannedCode,
                    lastScannedTime, isProcessingRef, scanTimeoutRef, isScanning,
                    handlerIsScanning, timers, tasks, limits, build, mounted, syncVars >>

(***************************************************************************)
(* The boolean-state screen (app/index.tsx)                                *)
(***************************************************************************)
\* the gate of the boolean-state handler: if (!isScanning) return
Gate(scanning) == IF scanning THEN "Accept" ELSE "RejectBusy"

\* onBarcodeScanned of the boolean-state screen, up to its first await.  The
\* handler reads the isScanning of the render that created it.
OnBarcodeScannedBool(data, type) ==
    LET r == Gate(handlerIsScanning)
        n == Len(tasks) + 1
    IN  /\ ev' = Observed(data, r, ~isScanning)
        /\ IF r = "Accept"
             THEN /\ NumScans < limits.scans
                  /\ isScanning' = FALSE
                  /\ timers' = timers \cup
                        {[id |-> n, due |-> now + ENABLE_TIMEOUT, kind |-> "enable"]}
                  /\ tasks' = Append(tasks, Task("scanBool", data, type, "notify", 0, db = "ready"))
             ELSE UNCHANGED << isScanning, timers, tasks >>
        /\ UNCHANGED << now, db, store, nextId, scannedCodes, stats, lastScannedCode,
                        lastScannedTime, isProcessingRef, scanTimeoutRef,
                        handlerIsScanning, limits, build, mounted, syncVars >>

\* React re-renders the screen: the camera gets a handler that sees the new state
Render ==
    /\ handlerIsScanning # isScanning
    /\ handlerIsScanning' = isScanning
    /\ ev' = NoEv
    /\ UNCHANGED << now, db, store, nextId, scannedCodes, stats, lastScannedCode,
                    lastScannedTime, isProcessingRef, scanTimeoutRef, isScanning,
                    timers, tasks, limits, build, mounted, syncVars >>

\* setTimeout(() => { setIsScanning(true) }, 1000)
EnableFires(tm) ==
    /\ tm \in timers
    /\ tm.kind = "enable"
    /\ tm.due <= now
    /\ isScanning' = TRUE
    /\ timers' = timers \ {tm}
    /\ ev' = NoEv
    /\ UNCHANGED << now, db, store, nextId, scannedCodes, stats, lastScannedCode,
                    lastScannedTime, isProcessingRef, scanTimeoutRef,
                    handlerIsScanning, tasks, limits, build, mounted, syncVars >>

\* setScannedCodes(await db.consultarCodigos())
ListReturns(i, ok) ==
    /\ tasks[i].pc = "list"
    /\ IF ok
         THEN /\ scannedCodes' = consultarCodigos(store)
              /\ Goto(i, "upd_codes")
         ELSE /\ Finish(i, "unhandled")
              /\ UNCHANGED scannedCodes
    /\ ev' = NoEv
    /\ UNCHANGED << now, db, store, nextId, stats, lastScannedCode, lastScannedTime,
                    isProcessingRef, isScanning, handlerIsScanning,
                    limits, build, mounted, syncVars >>

(***************************************************************************)
(* History buttons                                                         *)
(***************************************************************************)
ShownIds == {scannedCodes[k].id : k \in 1..Len(scannedCodes)}

\* deleteCode(item.id), pressed on an item of the shown list
DeleteCode(id) ==
    /\ db = "ready"
    /\ id \in ShownIds
    /\ NumUserOps < limits.userOps
    /\ tasks' = Append(tasks, Task("delete", "", "", "delete", id, TRUE))
    /\ ev' = NoEv
    /\ UNCHANGED << now, db, store, nextId, scannedCodes, stats, lastScannedCode,
                    lastScannedTime, isProcessingRef, scanTimeoutRef, isScanning,
                    handlerIsScanning, timers, limits, build, mounted, syncVars >>

\* await db.eliminarCodigo(id)
DeleteReturns(i, ok) ==
    /\ tasks[i].pc = "delete"
    /\ IF ok
         THEN /\ store' = eliminarCodigo(store, tasks[i].target)
              /\ Goto(i, "upd_codes")
         ELSE /\ Finish(i, "alert")
              /\ UNCHANGED store
    /\ ev' = NoEv
    /\ UNCHANGED << now, db, nextId, scannedCodes, stats, lastScannedCode,
                    lastScannedTime, isProcessingRef, isScanning, handlerIsScanning,
                    limits, build, mounted, syncVars >>

\* clearScannedCodes, "Eliminar" pressed in the confirmation dialog
ClearScannedCodes ==
    /\ db = "ready"
    /\ NumUserOps < limits.userOps
    /\ tasks' = Append(tasks, Task("clear", "", "", "clear", 0, TRUE))
    /\ ev' = NoEv
    /\ UNCHANGED << now, db, store, nextId, scannedCodes, stats, lastScannedCode,
                    lastScannedTime, isProcessingRef, scanTimeoutRef, isScanning,
                    handlerIsScanning, timers, limits, build, mounted, syncVars >>

\* await db.limpiarCodigos()
ClearReturns(i, ok) ==
    /\ tasks[i].pc = "clear"
    /\ IF ok
         THEN /\ store' = limpiarCodigos(store)
              /\ Goto(i, "upd_codes")
         ELSE /\ Finish(i, "alert")
              /\ UNCHANGED store
    /\ ev' = NoEv
    /\ UNCHANGED << now, db, nextId, scannedCodes, stats, lastScannedCode,
                    lastScannedTime, isProcessingRef, isScanning, handlerIsScanning,
                    limits, build, mounted, syncVars >>

(***************************************************************************)
(* syncWithServer.  The three screens have the same function, except that  *)
(* the location screen's local-mode message has no number in it and its    *)
(* POST body has no timestamp.                                             *)
(***************************************************************************)
\* body: JSON.stringify({ data, type, timestamp })
Body(row) ==
    IF screen = "location"
      THEN [data |-> row.data, type |-> row.type]
      ELSE [data |-> row.data, type |-> row.type, timestamp |-> row.timestamp]

\* fetch(`${API_URL}/codigos`, { method: "POST", ... }) issued by invocation i
Post(i, row) == [task |-> i, body |-> Body(row), reply |-> "pending"]

\* how a fetch ends: resolved with a 2xx or with a failure status, or rejected
Replies == {"2xx", "5xx", "error"}

\* the message of the "Modo Local" Alert: `Tienes ${scannedCodes.length} ...`
LocalNoticeCount(codes) == IF screen = "location" THEN NoCount ELSE Len(codes)

\* an emptiness test that is skipped in local mode
NoCodesUnlessLocal(codes) == codes = << >> /\ ~isLocalMode

\* if (!scannedCodes.length)
NoCodes(codes) == codes = << >>

\* syncWithServer, pressed on the sync button (disabled while isSyncing), up
\* to its first await.  scannedCodes is the list of the render it closes over.
SyncWithServer ==
    LET n == Len(tasks) + 1
        call(pc) == [Task("sync", "", "", pc, 1, FALSE) EXCEPT !.codes = scannedCodes]
    IN  /\ ~isSyncing
        /\ NumUserOps < limits.userOps
        /\ IF NoCodes(scannedCodes)
             THEN /\ tasks' = Append(tasks, call("done"))
                  /\ syncResult' = [task |-> n, kind |-> "NothingToSync", count |-> NoCount]
                  /\ UNCHANGED << isSyncing, requests, timers >>
             ELSE /\ isSyncing' = TRUE
                  /\ UNCHANGED syncResult
                  /\ IF isLocalMode
                       THEN /\ tasks' = Append(tasks, call("done"))
                            /\ timers' = timers \cup
                                  {[id |-> n, due |-> now + LOCAL_NOTICE_DELAY, kind |-> "notice"]}
                            /\ UNCHANGED requests
                       ELSE /\ tasks' = Append(tasks, call("send"))
                            /\ requests' = << Post(n, scannedCodes[1]) >>
                            /\ UNCHANGED timers
        /\ ev' = NoEv
        /\ UNCHANGED << now, db, store, nextId, scannedCodes, stats, lastScannedCode,
                        lastScannedTime, isProcessingRef, scanTimeoutRef, isScanning,
                        handlerIsScanning, limits, build, mounted >>

\* await fetch(...) of the row in turn.  The response is not looked at: only a
\* rejected fetch leaves the loop, through catch and finally.
SendReturns(i, reply) ==
    /\ tasks[i].pc = "send"
    /\ LET k == tasks[i].target
           codes == tasks[i].codes
           j == CHOOSE x \in 1..Len(requests) :
                    requests[x].task = i /\ requests[x].reply = "pending"
           answered == [requests EXCEPT ![j].reply = reply]
       IN  IF reply = "error"
             THEN /\ requests' = answered
                  /\ syncResult' = [task |-> i, kind |-> "SyncFailed", count |-> NoCount]
                  /\ isSyncing' = FALSE
                  /\ tasks' = [tasks EXCEPT ![i].pc = "done", ![i].err = "alert"]
             ELSE IF k < Len(codes)
                    THEN /\ requests' = Append(answered, Post(i, codes[k + 1]))
                         /\ tasks' = [tasks EXCEPT ![i].target = k + 1]
                         /\ UNCHANGED << syncResult, isSyncing >>
                    ELSE /\ requests' = answered
                         /\ syncResult' = [task |-> i, kind |-> "SyncSucceeded",
                                           count |-> Len(codes)]
                         /\ isSyncing' = FALSE
                         /\ tasks' = [tasks EXCEPT ![i].pc = "done"]
    /\ ev' = NoEv
    /\ UNCHANGED << now, db, store, nextId, scannedCodes, stats, lastScannedCode,
                    lastScannedTime, isProcessingRef, scanTimeoutRef, isScanning,
                    handlerIsScanning, timers, limits, build, mounted >>

\* a local-mode callback that shows the notice and leaves the spinner on
NoticeFiresKeepsSpinner(tm) ==
    /\ tm \in timers
    /\ tm.kind = "notice"
    /\ tm.due <= now
    /\ syncResult' = [task |-> tm.id, kind |-> "LocalModeNotice",
                      count |-> LocalNoticeCount(tasks[tm.id].codes)]
    /\ timers' = timers \ {tm}
    /\ ev' = NoEv
    /\ UNCHANGED << now, db, store, nextId, scannedCodes, stats, lastScannedCode,
                    lastScannedTime, isProcessingRef, scanTimeoutRef, isScanning,
                    handlerIsScanning, tasks, limits, build, mounted, requests, isSyncing >>

\* the callback of the local-mode branch: Alert "Modo Local", setIsSyncing(false)
NoticeFires(tm) ==
    /\ tm \in timers
    /\ tm.kind = "notice"
    /\ tm.due <= now
    /\ syncResult' = [task |-> tm.id, kind |-> "LocalModeNotice",
                      count |-> LocalNoticeCount(tasks[tm.id].codes)]
    /\ isSyncing' = FALSE
    /\ timers' = timers \ {tm}
    /\ ev' = NoEv
    /\ UNCHANGED << now, db, store, nextId, scannedCodes, stats, lastScannedCode,
                    lastScannedTime, isProcessingRef, scanTimeoutRef, isScanning,
                    handlerIsScanning, tasks, limits, build, mounted, requests >>

(***************************************************************************)
(* Unmount                                                                 *)
(***************************************************************************)
\* the cleanup of the mount effect, the same in the ref-based screen and in
\* app/index.tsx: if (scanTimeoutRef.current) clearTimeout(scanTimeoutRef.current).
\* Awaited calls and other timers of the screen are left running.
Unmount ==
    /\ mounted
    /\ mounted' = FALSE
    /\ timers' = IF scanTimeoutRef # 0
                   THEN {tm \in timers : ~(tm.kind = "release" /\ tm.id = scanTimeoutRef)}
                   ELSE timers
    /\ ev' = NoEv
    /\ UNCHANGED << now, db, store, nextId, scannedCodes, stats, lastScannedCode,
                    lastScannedTime, isProcessingRef, scanTimeoutRef, isScanning,
                    handlerIsScanning, tasks, limits, build, syncVars >>

(***************************************************************************)
(* The screen after mount: retrieveLocalDbData has been called             *)
(***************************************************************************)
\* the invocation of retrieveLocalDbData started by the mount effect
LoadTask(pc) ==
    [kind |-> "load", data |-> "", type |-> "", at |-> StartTime, pc |-> pc,
     codes |-> << >>, target |-> 0, hasDb |-> FALSE, err |-> "none"]

ScreenAtMount ==
    /\ now = StartTime
    /\ store = << >>
    /\ nextId = 1
    /\ scannedCodes = << >>
    /\ stats = EmptyStats
    /\ lastScannedCode = ""
    /\ lastScannedTime = 0
    /\ isProcessingRef = FALSE
    /\ scanTimeoutRef = 0
    /\ isScanning = TRUE
    /\ handlerIsScanning = TRUE
    /\ timers = {}
    /\ ev = NoEv
    /\ mounted = TRUE
    /\ isSyncing = FALSE
    /\ requests = << >>
    /\ syncResult = NoResult

\* right after mount: connectDb() is pending
Mounted ==
    /\ ScreenAtMount
    /\ db = "connecting"
    /\ tasks = << LoadTask("connect") >>

\* once retrieveLocalDbData has completed on an empty database
Loaded ==
    /\ ScreenAtMount
    /\ db = "ready"
    /\ tasks = << LoadTask("done") >>

Init ==
    /\ Mounted
    /\ screen = "refs"
    /\ isLocalMode = TRUE
    /\ limits = [scans |-> MaxScans, userOps |-> 0, ticks |-> MaxTicks, faults |-> TRUE]

Next ==
    \/ \E c \in Codes : OnBarcodeScanned(c[1], c[2])
    \/ \E i \in Awaiting("connect"), ok \in Outcomes : ConnectReturns(i, ok)
    \/ \E i \in Awaiting("exists"), ok \in Outcomes : ExistsReturns(i, ok)
    \/ \E i \in Awaiting("notifyKnown") \cup Awaiting("notifyNew") : NotifyReturns(i)
    \/ \E i \in Awaiting("insert"), ok \in Outcomes : InsertReturns(i, ok)
    \/ \E i \in Awaiting("upd_codes"), ok \in Outcomes : UpdCodesReturns(i, ok)
    \/ \E i \in Awaiting("upd_stats"), ok \in Outcomes : UpdStatsReturns(i, ok)
    \/ \E tm \in timers : ReleaseFires(tm)
    \/ Advance

Spec == Init /\ [][Next]_vars

\* The boolean-state screen, scanning only
InitBool ==
    /\ Mounted
    /\ screen = "state"
    /\ isLocalMode = TRUE
    /\ limits = [scans |-> MaxBoolScans, userOps |-> 0, ticks |-> MaxBoolTicks, faults |-> FALSE]

NextBool ==
    \/ \E c \in Codes : OnBarcodeScannedBool(c[1], c[2])
    \/ Render
    \/ \E i \in Awaiting("connect"), ok \in Outcomes : ConnectReturns(i, ok)
    \/ \E i \in Awaiting("notify") : NotifyReturns(i)
    \/ \E i \in Awaiting("insert"), ok \in Outcomes : InsertReturns(i, ok)
    \/ \E i \in Awaiting("list"), ok \in Outcomes : ListReturns(i, ok)
    \/ \E i \in Awaiting("upd_codes"), ok \in Outcomes : UpdCodesReturns(i, ok)
    \/ \E i \in Awaiting("upd_stats"), ok \in Outcomes : UpdStatsReturns(i, ok)
    \/ \E tm \in timers : EnableFires(tm)
    \/ Advance

SpecBool == InitBool /\ [][NextBool]_vars

\* the rows a database holds from earlier sessions
Stored(c) ==
    [i \in DOMAIN c |-> [id |-> i, data |-> c[i][1], type |-> c[i][2],
                         timestamp |-> StartTime - Tick]]

\* one database per size: the two codes in turn
InTurn(n) == [i \in 1..n |-> IF i % 2 = 1 THEN <<"A", "qr">> ELSE <<"B", "code128">>]

\* once retrieveLocalDbData has completed on a database that holds the rows st
LoadedOn(st) ==
    /\ store = st
    /\ nextId = Len(st) + 1
    /\ scannedCodes = consultarCodigos(st)
    /\ stats = obtenerEstadisticas(st)
    /\ now = StartTime
    /\ db = "ready"
    /\ tasks = << LoadTask("done") >>
    /\ lastScannedCode = ""
    /\ lastScannedTime = 0
    /\ isProcessingRef = FALSE
    /\ scanTimeoutRef = 0
    /\ isScanning = TRUE
    /\ handlerIsScanning = TRUE
    /\ timers = {}
    /\ ev = NoEv
    /\ mounted = TRUE
    /\ isSyncing = FALSE
    /\ requests = << >>
    /\ syncResult = NoResult

\* a database that is empty, or holds the code "A" from an earlier session
KnownBefore == {<< >>, Stored(<< <<"A", "qr">> >>)}

\* The ref-based screen with its history buttons, from the completed initial load
InitHistory ==
    /\ \E st \in KnownBefore : LoadedOn(st)
    /\ screen = "refs"
    /\ isLocalMode = TRUE
    /\ limits = [scans |-> MaxHistScans, userOps |-> MaxUserOps,
                 ticks |-> MaxHistTicks, faults |-> FALSE]

\* both buttons go through a modal confirmation dialog; the user confirms the
\* next one once the operation started by the one before has completed, so
\* the operations of two presses do not overlap (scans overlap with them)
DialogFree == \A i \in 1..Len(tasks) : tasks[i].kind \in {"delete", "clear"} => tasks[i].pc = "done"

NextHistory ==
    \/ \E c \in Codes : OnBarcodeScanned(c[1], c[2])
    \/ \E i \in Awaiting("exists"), ok \in Outcomes : ExistsReturns(i, ok)
    \/ \E i \in Awaiting("notifyKnown") \cup Awaiting("notifyNew") : NotifyReturns(i)
    \/ \E i \in Awaiting("insert"), ok \in Outcomes : InsertReturns(i, ok)
    \/ \E i \in Awaiting("upd_codes"), ok \in Outcomes : UpdCodesReturns(i, ok)
    \/ \E i \in Awaiting("upd_stats"), ok \in Outcomes : UpdStatsReturns(i, ok)
    \/ \E tm \in timers : ReleaseFires(tm)
    \/ \E id \in ShownIds : DialogFree /\ DeleteCode(id)
    \/ \E i \in Awaiting("delete"), ok \in Outcomes : DeleteReturns(i, ok)
    \/ DialogFree /\ ClearScannedCodes
    \/ \E i \in Awaiting("clear"), ok \in Outcomes : ClearReturns(i, ok)
    \/ Advance

SpecHistory == InitHistory /\ [][NextHistory]_vars

\* The sync button of any of the three screens, from the completed initial
\* load of a database that holds up to MaxSyncRecords rows; the list can
\* change under the running sync through the clear button.
StoredBefore == {Stored(InTurn(n)) : n \in 0..MaxSyncRecords}

Screens == {"refs", "state", "location"}

InitSync ==
    /\ store \in StoredBefore
    /\ nextId = Len(store) + 1
    /\ scannedCodes = consultarCodigos(store)
    /\ stats = obtenerEstadisticas(store)
    /\ now = StartTime
    /\ db = "ready"
    /\ tasks = << LoadTask("done") >>
    /\ lastScannedCode = ""
    /\ lastScannedTime = 0
    /\ isProcessingRef = FALSE
    /\ scanTimeoutRef = 0
    /\ isScanning = TRUE
    /\ handlerIsScanning = TRUE
    /\ timers = {}
    /\ ev = NoEv
    /\ mounted = TRUE
    /\ isSyncing = FALSE
    /\ requests = << >>
    /\ syncResult = NoResult
    /\ screen \in Screens
    /\ isLocalMode \in BOOLEAN
    /\ limits = [scans |-> 0, userOps |-> MaxSyncOps, ticks |-> MaxSyncTicks, faults |-> FALSE]

NextSync ==
    \/ SyncWithServer
    \/ \E i \in Awaiting("send"), reply \in Replies : SendReturns(i, reply)
    \/ \E tm \in timers : NoticeFires(tm)
    \/ screen # "location" /\ ClearScannedCodes
    \/ \E i \in Awaiting("clear"), ok \in Outcomes : ClearReturns(i, ok)
    \/ \E i \in Awaiting("upd_codes"), ok \in Outcomes : UpdCodesReturns(i, ok)
    \/ \E i \in Awaiting("upd_stats"), ok \in Outcomes : UpdStatsReturns(i, ok)
    \/ Advance

SpecSync == InitSync /\ [][NextSync]_vars

\* Either scanner screen, scanning until it is unmounted; what was started
\* before the unmount goes on after it.
InitTeardown ==
    /\ Loaded
    /\ screen \in {"refs", "state"}
    /\ isLocalMode = TRUE
    /\ limits = [scans |-> MaxDownScans, userOps |-> 0, ticks |-> MaxDownTicks, faults |-> FALSE]

NextTeardown ==
    \/ \E c \in Codes : mounted /\ screen = "refs" /\ OnBarcodeScanned(c[1], c[2])
    \/ \E c \in Codes : mounted /\ screen = "state" /\ OnBarcodeScannedBool(c[1], c[2])
    \/ mounted /\ Render
    \/ \E i \in Awaiting("exists"), ok \in Outcomes : ExistsReturns(i, ok)
    \/ \E i \in Awaiting("notifyKnown") \cup Awaiting("notifyNew") \cup Awaiting("notify") :
           NotifyReturns(i)
    \/ \E i \in Awaiting("insert"), ok \in Outcomes : InsertReturns(i, ok)
    \/ \E i \in Awaiting("list"), ok \in Outcomes : ListReturns(i, ok)
    \/ \E i \in Awaiting("upd_codes"), ok \in Outcomes : UpdCodesReturns(i, ok)
    \/ \E i \in Awaiting("upd_stats"), ok \in Outcomes : UpdStatsReturns(i, ok)
    \/ \E tm \in timers : ReleaseFires(tm)
    \/ \E tm \in timers : EnableFires(tm)
    \/ Unmount
    \/ Advance

SpecTeardown == InitTeardown /\ [][NextTeardown]_vars

\* The sync button on its own, with what the platform guarantees: a fetch
\* settles, a timer that is due runs, time passes.  The clock of the model
\* stops after limits.ticks steps, so a sync is started while it still runs.
ClockRuns == now < StartTime + limits.ticks * Tick

NextSyncLive ==
    \/ ClockRuns /\ SyncWithServer
    \/ \E i \in Awaiting("send"), reply \in Replies : SendReturns(i, reply)
    \/ \E tm \in timers : NoticeFires(tm)
    \/ Advance

SpecSyncLive ==
    /\ InitSync
    /\ [][NextSyncLive]_vars
    /\ WF_vars(\E i \in Awaiting("send"), reply \in Replies : SendReturns(i, reply))
    /\ WF_vars(\E tm \in timers : NoticeFires(tm))
    /\ WF_vars(Advance)

\* The ref-based screen from its initial refs, for any reading of the clock
\* from 0 on and any payload a code can carry, the empty string included.
FirstCodes == Codes \cup {<<"", "qr">>}

InitFirst ==
    /\ store = << >>
    /\ nextId = 1
    /\ scannedCodes = << >>
    /\ stats = EmptyStats
    /\ now = 0
    /\ db = "ready"
    /\ tasks = << [LoadTask("done") EXCEPT !.at = 0] >>
    /\ lastScannedCode = ""
    /\ lastScannedTime = 0
    /\ isProcessingRef = FALSE
    /\ scanTimeoutRef = 0
    /\ isScanning = TRUE
    /\ handlerIsScanning = TRUE
    /\ timers = {}
    /\ ev = NoEv
    /\ mounted = TRUE
    /\ isSyncing = FALSE
    /\ requests = << >>
    /\ syncResult = NoResult
    /\ screen = "refs"
    /\ isLocalMode = TRUE
    /\ limits = [scans |-> MaxFirstScans, userOps |-> 0, ticks |-> MaxFirstTicks, faults |-> FALSE]

NextFirst ==
    \/ \E c \in FirstCodes : OnBarcodeScanned(c[1], c[2])
    \/ \E i \in Awaiting("exists"), ok \in Outcomes : ExistsReturns(i, ok)
    \/ \E i \in Awaiting("notifyKnown") \cup Awaiting("notifyNew") : NotifyReturns(i)
    \/ \E i \in Awaiting("insert"), ok \in Outcomes : InsertReturns(i, ok)
    \/ \E i \in Awaiting("upd_codes"), ok \in Outcomes : UpdCodesReturns(i, ok)
    \/ \E i \in Awaiting("upd_stats"), ok \in Outcomes : UpdStatsReturns(i, ok)
    \/ \E tm \in timers : ReleaseFires(tm)
    \/ Advance

SpecFirst == InitFirst /\ [][NextFirst]_vars

(***************************************************************************)
(* The database on its own, driven by any sequence of calls                *)
(***************************************************************************)
Frame == UNCHANGED << now, db, scannedCodes, stats, lastScannedCode, lastScannedTime,
                      isProcessingRef, scanTimeoutRef, isScanning, handlerIsScanning,
                      timers, tasks, limits, build, mounted, syncVars >>

StoreInsert(data, type) ==
    /\ nextId <= limits.scans
    /\ store' = insertarCodigo(store, nextId, data, type, now)
    /\ nextId' = nextId + 1
    /\ ev' = NoEv
    /\ Frame

\* any identifier the database has assigned so far, still stored or not
StoreDelete(id) ==
    /\ id \in 1..(nextId - 1)
    /\ store' = eliminarCodigo(store, id)
    /\ ev' = NoEv
    /\ UNCHANGED nextId
    /\ Frame

StoreClear ==
    /\ store' = limpiarCodigos(store)
    /\ ev' = NoEv
    /\ UNCHANGED nextId
    /\ Frame

InitStore ==
    /\ Mounted
    /\ screen = "refs"
    /\ isLocalMode = TRUE
    /\ limits = [scans |-> MaxInserts, userOps |-> 0, ticks |-> MaxStoreTicks, faults |-> FALSE]

NextStore ==
    \/ \E d \in Payloads, ty \in Types : StoreInsert(d, ty)
    \/ \E id \in 1..MaxInserts : StoreDelete(id)
    \/ StoreClear
    \/ Advance

SpecStore == InitStore /\ [][NextStore]_vars

(***************************************************************************)
(* Properties                                                              *)
(***************************************************************************)
Scans == {i \in 1..Len(tasks) : IsScan(tasks[i])}
InFlight == {i \in Scans : tasks[i].pc # "done"}
Delivered == ev.result # "none"
Gap == ev.time - ev.lastTime

\* the accepted scan has database work that has not completed / has been started
StoreOpsPending(tk) == tk.hasDb /\ tk.pc # "done"
StoreOpsBegun(tk) == tk.hasDb /\ tk.pc \notin {"notify"}

\* C1: at most one accepted scan is in flight: a decode event delivered while
\* the processing flag is set is never accepted, and the downstream processing
\* of two accepted scans never overlaps.
C1_OneInFlight ==
    /\ (Delivered /\ ev.busy) => ev.result # "Accept"
    /\ Cardinality(InFlight) <= 1

\* C2: whenever the processing flag is set, the decode event is answered
\* RejectBusy, whatever its payload and timestamp.
C2_BusyRejectsAll == (Delivered /\ ev.busy) => ev.result = "RejectBusy"

\* a busy rejection of a payload other than the last accepted one, past the cooldown
C2_Witness ==
    /\ ev.result = "RejectBusy"
    /\ ev.busy
    /\ ev.data # ev.lastCode
    /\ Gap >= SCAN_COOLDOWN

\* C3: with the processing flag clear, the decode event is answered
\* RejectDuplicate exactly when its payload is the last accepted one and less
\* than SCAN_COOLDOWN has passed since that acceptance.
C3_DuplicateIffInWindow ==
    (Delivered /\ ~ev.busy) =>
        ((ev.result = "RejectDuplicate") <=> (ev.data = ev.lastCode /\ Gap < SCAN_COOLDOWN))

\* the last accepted payload again, exactly SCAN_COOLDOWN later, flag clear: accepted
C3_Witness ==
    /\ Delivered
    /\ ~ev.busy
    /\ ev.data = ev.lastCode
    /\ Gap = SCAN_COOLDOWN
    /\ ev.result = "Accept"

\* C4: a decode event that is neither RejectBusy nor RejectDuplicate is
\* answered Accept, and then the processing flag is set and the last accepted
\* pair is the event's payload and timestamp.
C4_AcceptRecords ==
    (Delivered /\ ev.result \notin {"RejectBusy", "RejectDuplicate"}) =>
        /\ ev.result = "Accept"
        /\ isProcessingRef
        /\ lastScannedCode = ev.data
        /\ lastScannedTime = ev.time

\* an Accept that replaces an earlier accepted pair
C4_Witness ==
    /\ ev.result = "Accept"
    /\ ev.lastCode \in Payloads
    /\ ev.lastCode # ev.data
    /\ ev.lastTime < ev.time

\* the accepted scans i < j with no accepted scan between them
Consecutive(i, j) == i \in Scans /\ j \in Scans /\ i < j /\ ~ \E k \in Scans : i < k /\ k < j

\* C5: of decode events that carry the same payload, none that arrives within
\* one cooldown window of an accepted one is accepted, whenever release runs:
\* two successive Accepts of one payload are at least SCAN_COOLDOWN apart.
C5_OneAcceptPerWindow ==
    \A i, j \in Scans :
        (Consecutive(i, j) /\ tasks[i].data = tasks[j].data) =>
            tasks[j].at - tasks[i].at >= SCAN_COOLDOWN

\* after the release, inside the window, the same payload is rejected as a duplicate
C5_Witness ==
    /\ ev.result = "RejectDuplicate"
    /\ ~ev.busy
    /\ Gap >= PROCESSING_TIMEOUT
    /\ \E i \in Scans : tasks[i].data = ev.data /\ tasks[i].pc = "done"

\* C6: the processing flag is released PROCESSING_TIMEOUT after the
\* acceptance, also while the downstream work is still pending: the flag is
\* never found set later than that.
C6_ReleasedAfterTimeout == isProcessingRef => now - lastScannedTime <= PROCESSING_TIMEOUT

\* C7: after an Accept and a wait longer than PROCESSING_TIMEOUT and longer
\* than the cooldown window, a decode event with the same payload is accepted.
C7_AcceptAfterWait ==
    (Delivered /\ ev.data = ev.lastCode /\ Gap > PROCESSING_TIMEOUT /\ Gap > SCAN_COOLDOWN)
        => ev.result = "Accept"

\* C8: accepted scans are processed in acceptance order: the database work of
\* a later accepted scan does not begin before that of an earlier one is complete.
C8_ProcessedInOrder ==
    \A i, j \in Scans :
        (i < j /\ StoreOpsBegun(tasks[j])) => ~StoreOpsPending(tasks[i])

\* C9: the total of the statistics is the length of the list, and the per-type
\* counts add up to the total, after any sequence of insert, delete and clear.
C9_StatsMatchList ==
    LET st == obtenerEstadisticas(store)
    IN  /\ st.total = Len(consultarCodigos(store))
        /\ SumOver(st.porTipo, DOMAIN st.porTipo) = st.total

\* rows of both types and of one payload twice, after a row has been removed
C9_Witness ==
    /\ Len(store) >= 2
    /\ nextId > Len(store) + 1
    /\ \E i, j \in 1..Len(store) : i # j /\ store[i].data = store[j].data
    /\ \E i, j \in 1..Len(store) : store[i].type # store[j].type

\* C10: every insert call adds exactly one row, also when a row with the same
\* payload is already stored.
C10_InsertAddsOne == [][nextId' = nextId + 1 => Len(store') = Len(store) + 1]_vars

\* three inserts of one payload and type: three rows, exists true, total 3
C10_Witness ==
    /\ Len(store) = 3
    /\ nextId = 4
    /\ \A i \in 1..3 : store[i].data = "A" /\ store[i].type = "qr"
    /\ existeCodigo(store, "A")
    /\ obtenerEstadisticas(store).total = 3

Ids(st) == {st[i].id : i \in 1..Len(st)}
Rows(st) == {st[i] : i \in 1..Len(st)}

\* C11: in every store state, for every payload, insert(payload, type)
\* followed by exists(payload) gives true, and clearAll() followed by list()
\* gives the empty sequence.
C11_InsertThenExists ==
    [][/\ \A d \in Payloads, ty \in Types : StoreInsert(d, ty) => existeCodigo(store', d)
       /\ StoreClear => consultarCodigos(store') = << >>]_vars

\* the store was emptied and a payload inserted after it: it is the only row
\* and exists finds it
C11_Witness ==
    /\ Len(store) = 1
    /\ store[1].id = MaxInserts
    /\ existeCodigo(store, store[1].data)
    /\ Len(consultarCodigos(store)) = 1

\* C12: deleteById(id) removes the one row with that identifier and leaves
\* every other row as it was, in the same order; when no row has the
\* identifier the store is unchanged.
C12_DeleteRemovesOne ==
    [][\A id \in 1..MaxInserts : StoreDelete(id) =>
          /\ Ids(store') = Ids(store) \ {id}
          /\ Rows(store') = {r \in Rows(store) : r.id # id}
          /\ Len(store') = Len(store) - (IF id \in Ids(store) THEN 1 ELSE 0)
          /\ \A i, j \in 1..Len(store') : i < j => store'[i].id < store'[j].id
          /\ id \notin Ids(store) => store' = store]_vars

\* the middle one of three rows has been removed, the other two are in place
C12_Witness ==
    /\ Len(store) = 2
    /\ store[1].id = 1
    /\ store[2].id = 3
    /\ nextId = 4

\* a step in which syncWithServer is called
SyncStarted == Len(tasks') = Len(tasks) + 1 /\ tasks'[Len(tasks')].kind = "sync"

\* the invocation the last report belongs to, and its list
Reported == tasks[syncResult.task]
LoopReported == requests # << >> /\ requests[1].task = syncResult.task

\* C13: sync on an empty list reports NothingToSync in the calling step, with
\* no network call, no timer and the syncing state never entered, in local
\* and in remote mode alike.
C13_EmptyNothingToSync ==
    [][(SyncStarted /\ scannedCodes = << >>) =>
          /\ syncResult' = [task |-> Len(tasks'), kind |-> "NothingToSync", count |-> NoCount]
          /\ tasks'[Len(tasks')].pc = "done"
          /\ requests' = requests
          /\ timers' = timers
          /\ ~isSyncing /\ ~isSyncing']_vars

\* remote mode, the list emptied by the clear button, then sync: NothingToSync
C13_Witness ==
    /\ syncResult.kind = "NothingToSync"
    /\ ~isLocalMode
    /\ nextId > 1
    /\ Reported.codes = << >>
    /\ requests = << >>
    /\ ~isSyncing

\* C14: in local mode no network call is made, and the report of a sync on a
\* non-empty list is LocalModeNotice(count), count being the number of
\* records the sync was called with.
C14_LocalNoticeCounts ==
    /\ isLocalMode => requests = << >>
    /\ syncResult.kind = "LocalModeNotice" =>
          /\ Reported.codes # << >>
          /\ syncResult.count = Len(Reported.codes)

\* C15: in remote mode, once a send has failed no later record is sent and the
\* report is SyncFailed(partialCount), partialCount being the number of
\* records sent successfully before the failure.
C15_FailureStopsAndCounts ==
    (syncResult.kind = "SyncFailed" /\ LoopReported) =>
        /\ \A k \in 1..(Len(requests) - 1) : requests[k].reply = "2xx"
        /\ requests[Len(requests)].reply # "2xx"
        /\ syncResult.count = Len(requests) - 1

\* C16: in remote mode SyncSucceeded(count) is reported only when every record
\* of the list has been sent with success, one POST per record in list order,
\* count being the number of records: never after a send that was answered
\* with a failure status.
C16_SuccessMeansAllSent ==
    (syncResult.kind = "SyncSucceeded" /\ LoopReported) =>
        /\ Len(requests) = Len(Reported.codes)
        /\ \A k \in 1..Len(requests) :
              /\ requests[k].body = Body(Reported.codes[k])
              /\ requests[k].reply = "2xx"
        /\ syncResult.count = Len(Reported.codes)

\* C17: no storage failure is swallowed: an invocation in which a database
\* call failed, while an accepted scan was processed or while the list and
\* the statistics were refreshed, ends with the failure reported, never with
\* the failure only written to the console.
C17_NoSilentFailure ==
    \A i \in 1..Len(tasks) : tasks[i].pc = "done" => tasks[i].err # "logged"

\* C18: the boolean-state screen accepts the decode events the ref-based
\* screen accepts: as long as both have accepted the same events so far, an
\* event the boolean-state screen accepts is one that decide of the ref-based
\* screen accepts after the same last accepted event.
C18_SameAccepts ==
    \A i, j \in Scans :
        (Consecutive(i, j) /\ j = Len(tasks) /\ ev.result = "Accept") =>
            Decide(FALSE, tasks[i].data, tasks[i].at, ev.data, ev.time) = "Accept"

\* the deduplication state of the ref-based screen
DedupState == << lastScannedCode, lastScannedTime, isProcessingRef >>

\* a step in which a release callback runs
Released == \E tm \in timers : tm.kind = "release" /\ tm.due <= now /\ timers' = timers \ {tm}

\* C19: the deduplication state changes only through Accept and release: a
\* decode event answered RejectBusy or RejectDuplicate leaves the last
\* accepted payload, the last accepted timestamp and the processing flag as
\* they were, release changes the flag only, and no other step changes any
\* of the three.
C19_OnlyAcceptAndRelease ==
    [][/\ ev'.result \in {"RejectBusy", "RejectDuplicate"} => UNCHANGED DedupState
       /\ Released => UNCHANGED << lastScannedCode, lastScannedTime >>
       /\ ~UNCHANGED DedupState => (ev'.result = "Accept" \/ Released)]_vars

\* a duplicate rejected after the release: the flag is still clear and the
\* last accepted pair is the one the event was compared with
C19_Witness ==
    /\ ev.result = "RejectDuplicate"
    /\ ev.lastCode \in Payloads
    /\ DedupState = << ev.lastCode, ev.lastTime, FALSE >>
    /\ \E i \in Scans : tasks[i].pc = "done" /\ tasks[i].at = ev.lastTime

\* a step in which a release or re-enable callback runs
CallbackFires ==
    \E tm \in timers : tm.kind \in {"release", "enable"} /\ tm.due <= now /\ tm \notin timers'

\* C20: once the screen has been unmounted no release or re-enable callback
\* runs, whether the unmount found the timer pending or an accepted scan
\* still being processed.
C20_NoCallbackAfterTeardown == [][~mounted => ~CallbackFires]_vars

\* the scans of the ref-based handler that ended in its catch block
Failed == {i \in Scans : tasks[i].kind = "scanRef" /\ tasks[i].pc = "done" /\ tasks[i].err = "alert"}

\* C21: when the existence check or the insert of an accepted scan has failed
\* (a failing notification is absorbed by showNotification), the flag is not
\* left set: as long as it is set after the failure, the release timer of that
\* scan is pending and due within PROCESSING_TIMEOUT.
C21_ReleasedAfterFailure ==
    \A i \in Failed :
        (isProcessingRef /\ ~ \E j \in Scans : j > i) =>
            \E tm \in timers :
                tm.kind = "release" /\ tm.id = i /\ tm.due <= now + PROCESSING_TIMEOUT

\* a decode event accepted after the scan before it had failed
C21_Witness ==
    /\ ev.result = "Accept"
    /\ \E i \in Failed : Consecutive(i, Len(tasks))

\* the scans of the ref-based handler whose awaited work has not returned
Working == {i \in InFlight : tasks[i].kind = "scanRef"}

\* C22: the flag is never clear, and no release timer is armed, while the
\* existence check, the notification, the insert or the refresh of an accepted
\* scan is pending.
C22_BusyWhileWorking ==
    \A i \in Working :
        /\ isProcessingRef
        /\ ~ \E tm \in timers : tm.kind = "release" /\ tm.id = i

\* the work still pending, and the flag still set, more than PROCESSING_TIMEOUT
\* after the acceptance
C22_Witness ==
    /\ Working # {}
    /\ isProcessingRef
    /\ now - lastScannedTime > PROCESSING_TIMEOUT

NoDuplicatePayloads == \A i, j \in 1..Len(store) : i # j => store[i].data # store[j].data

\* C23: the handler inserts a row only for a payload that no stored row has,
\* and one row at a time; so with the handler, deleteCode and
\* clearScannedCodes as the only writers no two stored rows share a payload.
C23_NoDuplicatePayload ==
    /\ []NoDuplicatePayloads
    /\ [][nextId' # nextId =>
            /\ ~existeCodigo(store, store'[Len(store')].data)
            /\ Len(store') = Len(store) + 1]_vars

\* the payload stored in an earlier session was scanned and accepted, the
\* handler has completed, and no row has been inserted
C23_Witness ==
    /\ \E i \in Scans : tasks[i].pc = "done" /\ tasks[i].hasDb /\ tasks[i].data = "A"
    /\ nextId = 2
    /\ Len(store) = 1
    /\ store[1].data = "A"

\* C26: after the initial load the statistics and the list held by the
\* screen agree in every state: the held total is the length of the held list.
C26_HeldStatsMatchList == stats.total = Len(scannedCodes)

\* the re-enable timers that have not fired yet
Closed == {tm \in timers : tm.kind = "enable"}

\* C24: after a decode event has passed the isScanning gate no further event
\* passes it before the re-enable timer has fired, whether or not the screen
\* has re-rendered: there is never more than one re-enable timer pending, and
\* no scan is accepted while one is.
C24_OneAcceptPerOpening ==
    /\ Cardinality(Closed) <= 1
    /\ ev.result = "Accept" => Closed = {[id |-> Len(tasks), due |-> now + ENABLE_TIMEOUT,
                                          kind |-> "enable"]}

\* C25: a sync started on a non-empty list sets isSyncing, and isSyncing
\* always returns to false: when the notice timer fires in local mode, after
\* the last send or after a rejected send in remote mode.
C25_SyncingEnds ==
    /\ [][(SyncStarted /\ scannedCodes # << >>) => (~isSyncing /\ isSyncing')]_vars
    /\ isSyncing ~> ~isSyncing

\* remote mode: the second send was rejected and isSyncing is false again
C25_Witness ==
    /\ ~isSyncing
    /\ syncResult.kind = "SyncFailed"
    /\ Len(requests) = 2
    /\ Len(Reported.codes) = 3

====
